---- MODULE Spec2Model ----
(***************************************************************************)
(* Model of bombers_bot.py: one polling run of main() after another.       *)
(* A run loads the watermark (state.json), fetches a batch of features     *)
(* from ArcGIS, keeps the features above the watermark, renders every one  *)
(* of them (Gemini returns a relevance per feature), queues the most       *)
(* recent one plus the "important" ones, sends the queue to Telegram and   *)
(* saves the new watermark.                                                *)
(*                                                                         *)
(* Strings the code searches or lower-cases are sequences of characters,  *)
(* and the state file is the sequence of its JSON tokens.                  *)
(*                                                                         *)
(* Spec is the deployed bot; the other specifications run the same code    *)
(* over other inputs: SpecZero and SpecAttrs over other features, SpecEnv  *)
(* in every environment, SpecFile from any content of the state file and   *)
(* with a save that may be interrupted, SpecRender over features that      *)
(* cannot be rendered, SpecOverlap with a second invocation of main(), and *)
(* SpecTipo calls classify on its own.                                     *)
(***************************************************************************)
EXTENDS Integers, Sequences, FiniteSets

\* ---------------------------------------------------------------- bounds
MaxOid        == 4    \* ESRI_OID values are 0..MaxOid
MaxBatch      == 4    \* features in one ArcGIS response
MaxBatchAttrs == 2    \* the same, where every attribute of a feature varies

\* ACT_DAT_ACTUACIO values (two, so that ties and both orders happen)
TsVals  == {1, 2}
\* ACT_DAT_ACTUACIO of a feature whose JSON has null for it: a.get() then
\* returns None, not the default.
NoneTs  == 0 - 1
\* relevances Gemini may answer: below and at the threshold, and above it;
\* without a GEMINI_API_KEY every relevance is 0
RelVals         == {0, 7}
RelValsWide     == {0, 7, 9}
RelValsNoGemini == {0}

\* ------------------------------------------------------- program constants
MIN_DOTACIONS               == 3
MAX_TOTAL_MESSAGES_PER_RUN  == 3
MIN_RELEVANCE_FOR_IMPORTANT == 7

\* ------------------------------------------------------------------ texts
EmptyStr  == << >>
Forestal  == <<"f", "o", "r", "e", "s", "t", "a", "l">>
UrbaCap   == <<"U", "r", "b", "à">>
Tancat    == <<"t", "a", "n", "c", "a", "t">>

\* ACT_NUM_VEH, COM_FASE and TAL_DESC_ALARMA1 of the features whose
\* attributes vary: below and at MIN_DOTACIONS, active and closed, two alarms.
VehVals   == {2, 3}
FaseVals  == {EmptyStr, Tancat}
AlarmVals == {Forestal, UrbaCap}

\* A feature as fetch_features returns it, with the attributes the code reads.
FeatsOf(oids, vehs, fases, alarms) ==
    [ESRI_OID : oids, ACT_DAT_ACTUACIO : TsVals, ACT_NUM_VEH : vehs,
     COM_FASE : fases, TAL_DESC_ALARMA1 : alarms, TAL_DESC_ALARMA2 : {EmptyStr}]

\* The ArcGIS responses of at most n features out of F: sequences of features,
\* the object ids unique within a response.
BatchesOf(F, n) ==
    UNION { { b \in [1..k -> F] :
                \A i, j \in 1..k : i # j => b[i].ESRI_OID # b[j].ESRI_OID } :
            k \in 0..n }

\* Responses whose features differ in id and timestamp only: main() reads no
\* other attribute outside the rendering of the text. Every id is positive.
Batches ==
    BatchesOf(FeatsOf(1..MaxOid, {MIN_DOTACIONS}, {EmptyStr}, {EmptyStr}), MaxBatch)

\* The same, with the id 0, which Python takes for false.
BatchesZero ==
    BatchesOf(FeatsOf(0..MaxOid, {MIN_DOTACIONS}, {EmptyStr}, {EmptyStr}), MaxBatch)

\* The shorter ones among the responses of Batches.
BatchesSmall ==
    BatchesOf(FeatsOf(1..MaxOid, {MIN_DOTACIONS}, {EmptyStr}, {EmptyStr}), MaxBatchAttrs)

\* Features that differ in id only, apart from a timestamp out of ts.
FeatsTs(ts) ==
    [ESRI_OID : 1..MaxOid, ACT_DAT_ACTUACIO : ts,
     ACT_NUM_VEH : {MIN_DOTACIONS}, COM_FASE : {EmptyStr},
     TAL_DESC_ALARMA1 : {EmptyStr}, TAL_DESC_ALARMA2 : {EmptyStr}]

\* Responses in which a feature may come without a timestamp.
BatchesNull == BatchesOf(FeatsTs({1, NoneTs}), MaxBatchAttrs)

\* Responses whose features all have the same timestamp.
BatchesSameTs == BatchesOf(FeatsTs({1}), MaxBatchAttrs)

\* Responses whose features differ in every attribute.
BatchesAttrs ==
    BatchesOf(FeatsOf(0..MaxOid, VehVals, FaseVals, AlarmVals), MaxBatchAttrs)

\* ------------------------------------------------------------ state file
\* STATE_FILE: <<>> when state.json does not exist, <<text>> when it does.
\* A text is the sequence of the JSON tokens in the file; a text cut inside
\* a token parses like the text cut before that token.
DigitChars == <<"0", "1", "2", "3", "4", "5", "6", "7", "8", "9">>

\* The decimal digits of n >= 0, as json.dumps writes an int.
RECURSIVE DigitsOf(_)
DigitsOf(n) ==
    IF n < 10 THEN <<DigitChars[n + 1]>>
    ELSE DigitsOf(n \div 10) \o <<DigitChars[(n % 10) + 1]>>

\* json.dumps({"last_id": n})
json_dumps(n) ==
    <<"{", "last_id", ":">>
        \o (IF n < 0 THEN <<"-">> \o DigitsOf(-n) ELSE DigitsOf(n))
        \o <<"}">>

IsDigit(c) == \E d \in 1..Len(DigitChars) : DigitChars[d] = c

\* The value of a sequence of digits.
RECURSIVE ValueOf(_)
ValueOf(ds) ==
    IF ds = <<>> THEN 0
    ELSE 10 * ValueOf(SubSeq(ds, 1, Len(ds) - 1))
           + ((CHOOSE d \in 1..Len(DigitChars) : DigitChars[d] = ds[Len(ds)]) - 1)

\* ds is a JSON integer without sign: digits, no leading zero.
IsNumber(ds) ==
    /\ ds # <<>>
    /\ \A i \in 1..Len(ds) : IsDigit(ds[i])
    /\ Len(ds) > 1 => ds[1] # "0"

\* json.loads(text).get("last_id", -1) for the texts a state file may hold:
\* the object with the key last_id and an integer, the empty object, and
\* texts json.loads refuses (JSONDecodeError), among them the empty text and
\* every text that stops before the closing brace.
json_loads_get(text) ==
    IF text = <<"{", "}">> THEN [raised |-> FALSE, value |-> -1]
    ELSE IF /\ Len(text) >= 5
            /\ SubSeq(text, 1, 3) = <<"{", "last_id", ":">>
            /\ text[Len(text)] = "}"
         THEN LET num == SubSeq(text, 4, Len(text) - 1)
              IN  IF IsNumber(num)
                  THEN [raised |-> FALSE, value |-> ValueOf(num)]
                  ELSE IF num[1] = "-" /\ IsNumber(Tail(num))
                       THEN [raised |-> FALSE, value |-> 0 - ValueOf(Tail(num))]
                       ELSE [raised |-> TRUE, value |-> -1]
         ELSE [raised |-> TRUE, value |-> -1]

\* A load_state that misses the key and always takes the default.
load_stateNoKey(file) == [raised |-> FALSE, value |-> -1]

\* load_state(): the value it returns, or that it raised (value is then unused).
load_state(file) ==
    IF file # <<>> THEN json_loads_get(file[1])
    ELSE [raised |-> FALSE, value |-> -1]

\* Path.write_text: the file is opened for writing, which creates or empties
\* it, the text is written and the file is closed. A write that stops on the
\* way (the process is killed, the disk is full) leaves a proper prefix.
Prefixes(text) == { SubSeq(text, 1, k) : k \in 0..(Len(text) - 1) }

\* save_state(n): STATE_FILE once write_text has returned.
save_state(n) == <<json_dumps(n)>>

\* What a run may find in STATE_FILE: no file, a file an earlier run wrote,
\* the empty JSON object, and what an interrupted write leaves.
FileContents ==
    {<<>>, <<(<<"{", "}">>)>>}
        \cup { save_state(n) : n \in 1..MaxOid }
        \cup { <<part>> : part \in Prefixes(json_dumps(1)) }

\* ------------------------------------------------------------- utilities
SeqRange(s) == { s[i] : i \in 1..Len(s) }

SetMax(S) == CHOOSE m \in S : \A x \in S : x <= m

Oids(s) == { s[i].ESRI_OID : i \in 1..Len(s) }

Min(a, b) == IF a <= b THEN a ELSE b

\* -------------------------------------------------------------- tipo_val
\* str.lower() on the letters the alarm texts use.
UpperChars == <<"A", "B", "C", "E", "F", "G", "I", "L", "N", "O", "R", "S",
                "T", "U", "V", "À", "Í", "Ó">>
LowerChars == <<"a", "b", "c", "e", "f", "g", "i", "l", "n", "o", "r", "s",
                "t", "u", "v", "à", "í", "ó">>

LowerChar(c) ==
    IF \E i \in 1..Len(UpperChars) : UpperChars[i] = c
    THEN LowerChars[CHOOSE i \in 1..Len(UpperChars) : UpperChars[i] = c]
    ELSE c

Lower(str) == [i \in 1..Len(str) |-> LowerChar(str[i])]

\* sub in str
Contains(str, sub) ==
    \E i \in 0..(Len(str) - Len(sub)) : SubSeq(str, i + 1, i + Len(sub)) = sub

\* A tipo_val whose last branch returns 1: forestal when no keyword occurs.
tipo_valDefaultForestal(a) ==
    LET d == Lower(a.TAL_DESC_ALARMA1 \o <<" ">> \o a.TAL_DESC_ALARMA2)
    IN  IF Contains(d, <<"u", "r", "b", "à">>)
           \/ Contains(d, <<"u", "r", "b", "a", "n", "a">>) THEN 3
        ELSE IF Contains(d, <<"a", "g", "r", "í">>) THEN 2
        ELSE 1

\* tipo_val(a): 1 forestal, 2 agrícola, 3 urbà (also when no keyword occurs).
tipo_val(a) ==
    LET d == Lower(a.TAL_DESC_ALARMA1 \o <<" ">> \o a.TAL_DESC_ALARMA2)
    IN  IF Contains(d, <<"u", "r", "b", "à">>)
           \/ Contains(d, <<"u", "r", "b", "a", "n", "a">>) THEN 3
        ELSE IF Contains(d, <<"a", "g", "r", "í">>) THEN 2
        ELSE IF Contains(d, Forestal)
                \/ Contains(d, <<"v", "e", "g", "e", "t", "a", "c", "i", "ó">>) THEN 1
        ELSE 3

\* classify(a): the name of the class.
ClassNames == <<"forestal", "agrícola", "urbà">>

classify(a) == ClassNames[tipo_val(a)]

\* Alarm texts: none, each keyword of tipo_val (one with capitals), the
\* spellings without accent, and a text without any keyword.
Urbana     == <<"u", "r", "b", "a", "n", "a">>
Urbano     == <<"u", "r", "b", "a", "n", "o">>
AgricolaAc == <<"A", "G", "R", "Í", "C", "O", "L", "A">>
Agricola   == <<"a", "g", "r", "i", "c", "o", "l", "a">>
VegetacioAc == <<"v", "e", "g", "e", "t", "a", "c", "i", "ó">>
Vegetacion == <<"v", "e", "g", "e", "t", "a", "c", "i", "o", "n">>
Fum        == <<"f", "u", "m">>

AlarmTexts ==
    {EmptyStr, Forestal, UrbaCap, Urbana, Urbano, AgricolaAc, Agricola,
     VegetacioAc, Vegetacion, Fum}

\* ------------------------------------------------------------ fetch_features
\* What the server does with a request: the first query, and the query the
\* function repeats without the location fields after a 400.
\*   "ok"       HTTP 200, a JSON body with "features"
\*   "timeout"  requests.exceptions.Timeout
\*   "conn"     any other RequestException (connection, HTTP status)
\*   "http400"  a RequestException whose text has "400" and "Invalid query parameters"
\*   "err"      HTTP 200, a JSON body with an "error" envelope
\*   "err400"   an "error" envelope with code 400 and "Invalid query parameters"
FirstKinds    == {"ok", "timeout", "conn", "http400", "err", "err400"}
FallbackKinds == {"ok", "conn"}

\* The features fetch_features returns, and whether it returned through one of
\* its error paths (the returns that follow a logging.error and give []).
fetch_features(kind, data, kind2, data2) ==
    CASE kind = "ok"                  -> [feats |-> data, failed |-> FALSE]
      [] kind \in {"http400", "err400"} ->
            IF kind2 = "ok" THEN [feats |-> data2, failed |-> FALSE]
                            ELSE [feats |-> <<>>, failed |-> TRUE]
      [] OTHER                        -> [feats |-> <<>>, failed |-> TRUE]

\* ------------------------------------------------------------------- main
\* A filter that compares with >= : the watermark record is new again.
NewFeatsGeq(fs, lastId) ==
    SelectSeq(fs, LAMBDA f : f.ESRI_OID # 0 /\ f.ESRI_OID >= lastId)

\* A filter that forgets the watermark.
NewFeatsAll(fs, lastId) == SelectSeq(fs, LAMBDA f : f.ESRI_OID # 0)

\* new_feats: the features with a truthy ESRI_OID above the watermark.
NewFeats(fs, lastId) ==
    SelectSeq(fs, LAMBDA f : f.ESRI_OID # 0 /\ f.ESRI_OID > lastId)

\* The entry main() appends for feature f once Gemini has answered relevance r.
\* The rendered message is identified by the feature it was rendered from.
Processed(nf, rels) ==
    [i \in 1..Len(nf) |-> [object_id |-> nf[i].ESRI_OID,
                           relevance |-> rels[i],
                           timestamp |-> nf[i].ACT_DAT_ACTUACIO]]

\* A main() that forgets to sort: the first processed entry is taken as is.
SortByTimestampNone(s) == s

\* list.sort(key=timestamp, reverse=True): descending and stable, so entries
\* with equal timestamps keep the order they had in the list.
RECURSIVE InsertByTimestamp(_, _)
InsertByTimestamp(s, x) ==
    IF s = <<>> THEN <<x>>
    ELSE IF Head(s).timestamp >= x.timestamp
         THEN <<Head(s)>> \o InsertByTimestamp(Tail(s), x)
         ELSE <<x>> \o s

RECURSIVE SortByTimestamp(_)
SortByTimestamp(s) ==
    IF s = <<>> THEN <<>>
    ELSE InsertByTimestamp(SortByTimestamp(SubSeq(s, 1, Len(s) - 1)), s[Len(s)])

\* key=(relevance, timestamp), reverse=True: descending, lexicographic, stable.
KeyGeq(a, b) ==
    \/ a.relevance > b.relevance
    \/ a.relevance = b.relevance /\ a.timestamp >= b.timestamp

RECURSIVE InsertByRelevance(_, _)
InsertByRelevance(s, x) ==
    IF s = <<>> THEN <<x>>
    ELSE IF KeyGeq(Head(s), x)
         THEN <<Head(s)>> \o InsertByRelevance(Tail(s), x)
         ELSE <<x>> \o s

RECURSIVE SortByRelevance(_)
SortByRelevance(s) ==
    IF s = <<>> THEN <<>>
    ELSE InsertByRelevance(SortByRelevance(SubSeq(s, 1, Len(s) - 1)), s[Len(s)])

\* The first block of the selection: the most recent new entry, if any.
MostRecentQueue(sorted) ==
    IF sorted # <<>> THEN <<sorted[1]>> ELSE <<>>

\* A filter that forgets sent_object_ids.
ImportantIncidentsNoFilter(sorted, sentIds) ==
    SortByRelevance(
        SelectSeq(sorted, LAMBDA inc :
            inc.relevance >= MIN_RELEVANCE_FOR_IMPORTANT))

\* important_incidents_filtered, sorted: the entries Gemini rated at least
\* MIN_RELEVANCE_FOR_IMPORTANT whose id is not in sent_object_ids yet.
ImportantIncidents(sorted, sentIds) ==
    SortByRelevance(
        SelectSeq(sorted, LAMBDA inc :
            inc.relevance >= MIN_RELEVANCE_FOR_IMPORTANT
            /\ inc.object_id \notin sentIds))

\* A loop without the cap: every important entry is appended.
AppendImportantNoCap(q, important) == q \o important

\* The loop over the important entries: appended while fewer than
\* MAX_TOTAL_MESSAGES_PER_RUN messages are queued.
AppendImportant(q, important) ==
    q \o SubSeq(important, 1,
                Min(Len(important), MAX_TOTAL_MESSAGES_PER_RUN - Len(q)))

\* messages_to_send_final for the sorted list of processed entries.
MessagesToSend(sorted) ==
    LET first == MostRecentQueue(sorted)
    IN  AppendImportant(first,
                        ImportantIncidents(sorted, { first[i].object_id : i \in 1..Len(first) }))

\* A watermark taken from the lowest new id.
MaxIdToSaveMin(lastId, nf) ==
    IF nf # <<>>
    THEN CHOOSE m \in Oids(nf) : \A x \in Oids(nf) : m <= x
    ELSE lastId

\* A watermark taken from the first new feature instead of the maximum.
MaxIdToSaveFirst(lastId, nf) ==
    IF nf # <<>> THEN SetMax({lastId, nf[1].ESRI_OID}) ELSE lastId

\* max_id_to_save: the watermark main() saves.
MaxIdToSave(lastId, nf) ==
    IF nf # <<>>
    THEN SetMax({lastId} \cup { nf[i].ESRI_OID :
                                   i \in { j \in 1..Len(nf) : nf[j].ESRI_OID # 0 } })
    ELSE lastId

\* format_intervention_with_gemini(feature) raises: "timestamp_ms / 1000" is
\* a TypeError when the timestamp is None, outside every try block.
RenderRaises(f) == f.ACT_DAT_ACTUACIO = NoneTs

\* A rendering loop that catches the exception and goes on to the send loop.
AfterRenderCaught(raised) == "send"

\* Where the run is after the rendering loop: main() catches nothing, so an
\* exception raised while rendering ends the run.
AfterRender(raised) == IF raised THEN "crashed" ELSE "send"

\* A main() that goes on when nothing was fetched or nothing is new.
ReturnsEarlyNever(lst) == FALSE

\* The two early returns of main(): "if not feats" and "if not new_feats".
ReturnsEarly(lst) == lst = <<>>

\* ------------------------------------------------------------------- send
\* What happens to the POST of send_telegram_message: the request succeeds, or
\* it raises a RequestException, which the function logs and swallows.
SendOutcomes == {"delivered", "error"}

\* send_telegram_message(text): without TELEGRAM_BOT_TOKEN or TELEGRAM_CHAT_ID
\* it returns before any request ("skipped"); otherwise it posts, and the
\* request succeeds or raises.
send_telegram_message(token, chat, outcome) ==
    IF ~token \/ ~chat THEN "skipped" ELSE outcome

\* A send that keeps the message on the console in test mode.
sendConsoleInTestMode(msg, test, token, chat, outcome) ==
    [object_id |-> msg.object_id,
     outcome   |-> IF test THEN "skipped"
                   ELSE send_telegram_message(token, chat, outcome)]

\* send(text): the record of one call, the message it was given and what
\* became of it. IS_TEST_MODE chooses between two log lines and nothing else:
\* send_telegram_message is called in both modes.
send(msg, test, token, chat, outcome) ==
    [object_id |-> msg.object_id,
     outcome   |-> send_telegram_message(token, chat, outcome)]

\* A send whose RequestException is not caught: it ends the run.
AfterSendRaises(outcome) == IF outcome = "error" THEN "crashed" ELSE "send"

\* Where the run is after send(): send_telegram_message catches the
\* RequestException, so the loop goes on whatever the outcome.
AfterSend(outcome) == "send"

\* ------------------------------------------------------------------ state
VARIABLES
    stateFile,      \* STATE_FILE on disk
    pc,             \* where the current run of main() is
    last_id,        \* main(): last_id
    feats,          \* main(): feats
    fetchFailed,    \* fetch_features returned through an error path
    new_feats,      \* main(): new_feats
    all_processed,  \* main(): all_processed_new_feats, once sorted
    queue,          \* main(): messages_to_send_final
    sentLog,        \* the calls of send() made by this run, in order
    saves,          \* the calls of save_state() made by this run
    fileAtStart,    \* STATE_FILE as it was when this run started
    postedBefore,   \* object ids passed to send() by earlier runs
    env,            \* IS_TEST_MODE, TELEGRAM_BOT_TOKEN, TELEGRAM_CHAT_ID
    other,          \* a second invocation of main(), started by the scheduler
    aborted,        \* the batch of the previous run, if rendering ended that
                    \* run and this run has not fetched another batch
    tipoArg,        \* classify(a): the attributes a
    tipoRes         \* classify(a): the class returned, "" before the call

vars == <<stateFile, pc, last_id, feats, fetchFailed, new_feats,
          all_processed, queue, sentLog, saves, fileAtStart, postedBefore,
          env, other, aborted, tipoArg, tipoRes>>

\* The environment of a deployed bot: IS_TEST_MODE is "true" unless set
\* otherwise, and both Telegram variables are set.
DefaultEnv ==
    [IS_TEST_MODE |-> TRUE, TELEGRAM_BOT_TOKEN |-> TRUE, TELEGRAM_CHAT_ID |-> TRUE]

\* No second invocation yet.
OtherIdle ==
    [pc |-> "idle", last_id |-> -1, max_id_to_save |-> -1, sent |-> {},
     overlap |-> FALSE]

\* Attributes with both alarm texts empty.
NoAlarm == [TAL_DESC_ALARMA1 |-> EmptyStr, TAL_DESC_ALARMA2 |-> EmptyStr]

\* The locals of a run of main() that has not started, and no history.
InitRun ==
    /\ pc = "start"
    /\ last_id = -1
    /\ feats = <<>>
    /\ fetchFailed = FALSE
    /\ new_feats = <<>>
    /\ all_processed = <<>>
    /\ queue = <<>>
    /\ sentLog = <<>>
    /\ saves = 0
    /\ postedBefore = {}
    /\ other = OtherIdle
    /\ aborted = <<>>
    /\ tipoArg = NoAlarm
    /\ tipoRes = ""

\* The first run of a deployed bot: no state.json yet.
Init ==
    /\ stateFile = <<>>
    /\ fileAtStart = <<>>
    /\ env = DefaultEnv
    /\ InitRun

\* last_id = load_state()
LoadState ==
    /\ pc = "start"
    /\ LET r == load_state(stateFile)
       IN  IF r.raised
           THEN pc' = "crashed" /\ last_id' = last_id
           ELSE pc' = "fetch" /\ last_id' = r.value
    /\ UNCHANGED <<stateFile, feats, fetchFailed, new_feats, all_processed,
                   queue, sentLog, saves, fileAtStart, postedBefore,
                   env, other, aborted, tipoArg, tipoRes>>

\* feats = fetch_features(); return if it is empty.
Fetch(kind, data, kind2, data2) ==
    LET r == fetch_features(kind, data, kind2, data2)
    IN  /\ feats' = r.feats
        /\ fetchFailed' = r.failed
        /\ pc' = IF ReturnsEarly(r.feats) THEN "done" ELSE "filter"
        /\ aborted' = IF aborted # <<>> /\ r.feats = aborted[1].feats
                      THEN aborted ELSE <<>>
        /\ UNCHANGED <<stateFile, last_id, new_feats, all_processed, queue,
                       sentLog, saves, fileAtStart, postedBefore,
                       env, other, tipoArg, tipoRes>>

\* new_feats = [f for f in feats if ...]; return if it is empty.
Filter ==
    /\ pc = "filter"
    /\ new_feats' = NewFeats(feats, last_id)
    /\ pc' = IF ReturnsEarly(new_feats') THEN "done" ELSE "render"
    /\ UNCHANGED <<stateFile, last_id, feats, fetchFailed, all_processed, queue,
                   sentLog, saves, fileAtStart, postedBefore,
                   env, other, aborted, tipoArg, tipoRes>>

\* The first query answers with features, one of the responses B.
FetchOkFrom(B) ==
    /\ pc = "fetch"
    /\ \E data \in B : Fetch("ok", data, "ok", <<>>)

\* The first query is refused with a 400; the second query answers with one
\* of the responses B, or fails.
FetchFallbackFrom(B) ==
    /\ pc = "fetch"
    /\ \E kind \in {"http400", "err400"} :
          \/ \E data2 \in B : Fetch(kind, <<>>, "ok", data2)
          \/ Fetch(kind, <<>>, "conn", <<>>)

FetchOk == FetchOkFrom(Batches)

FetchFallback == FetchFallbackFrom(Batches)

FetchOkZero == FetchOkFrom(BatchesZero)

FetchFallbackZero == FetchFallbackFrom(BatchesZero)

FetchOkAttrs == FetchOkFrom(BatchesAttrs)

FetchFallbackAttrs == FetchFallbackFrom(BatchesAttrs)

FetchOkSmall == FetchOkFrom(BatchesSmall)

FetchFallbackSmall == FetchFallbackFrom(BatchesSmall)

FetchOkSameTs == FetchOkFrom(BatchesSameTs)

FetchFallbackSameTs == FetchFallbackFrom(BatchesSameTs)

FetchOkNull == FetchOkFrom(BatchesNull)

FetchFallbackNull == FetchFallbackFrom(BatchesNull)

\* The first query fails for good.
FetchError ==
    /\ pc = "fetch"
    /\ \E kind \in {"timeout", "conn", "err"} : Fetch(kind, <<>>, "ok", <<>>)

\* The loop that renders every new feature (Gemini answers a relevance for
\* each), the sort by timestamp and the selection of the messages to send.
RenderWith(rv) ==
    /\ pc = "render"
    /\ LET raised == \E i \in 1..Len(new_feats) : RenderRaises(new_feats[i])
       IN  /\ pc' = AfterRender(raised)
           /\ IF raised
              THEN UNCHANGED <<all_processed, queue>>
              ELSE \E rels \in [1..Len(new_feats) -> rv] :
                      LET sorted == SortByTimestamp(Processed(new_feats, rels))
                      IN  /\ all_processed' = sorted
                          /\ queue' = MessagesToSend(sorted)
    /\ UNCHANGED <<stateFile, last_id, feats, fetchFailed, new_feats,
                   sentLog, saves, fileAtStart, postedBefore,
                   env, other, aborted, tipoArg, tipoRes>>

Render == RenderWith(RelVals)

RenderWide == RenderWith(RelValsWide)

RenderNoGemini == RenderWith(RelValsNoGemini)

\* One iteration of the loop over messages_to_send_final.
Send ==
    /\ pc = "send"
    /\ Len(sentLog) < Len(queue)
    /\ \E outcome \in SendOutcomes :
          /\ sentLog' = Append(sentLog,
                               send(queue[Len(sentLog) + 1], env.IS_TEST_MODE,
                                    env.TELEGRAM_BOT_TOKEN, env.TELEGRAM_CHAT_ID,
                                    outcome))
          /\ pc' = AfterSend(outcome)
    /\ UNCHANGED <<stateFile, last_id, feats, fetchFailed, new_feats,
                   all_processed, queue, saves, fileAtStart, postedBefore,
                   env, other, aborted, tipoArg, tipoRes>>

\* The end of main(): save_state(max_id_to_save).
SaveState ==
    /\ pc = "send"
    /\ Len(sentLog) = Len(queue)
    /\ stateFile' = save_state(MaxIdToSave(last_id, new_feats))
    /\ saves' = saves + 1
    /\ pc' = "done"
    /\ UNCHANGED <<last_id, feats, fetchFailed, new_feats, all_processed,
                   queue, sentLog, fileAtStart, postedBefore,
                   env, other, aborted, tipoArg, tipoRes>>

\* The end of main(), with a write_text that does not get to its end: the
\* file is left with a part of the text and the run is over.
SaveStateInterrupted ==
    /\ pc = "send"
    /\ Len(sentLog) = Len(queue)
    /\ \E part \in Prefixes(json_dumps(MaxIdToSave(last_id, new_feats))) :
          stateFile' = <<part>>
    /\ saves' = saves + 1
    /\ pc' = "crashed"
    /\ UNCHANGED <<last_id, feats, fetchFailed, new_feats, all_processed,
                   queue, sentLog, fileAtStart, postedBefore,
                   env, other, aborted, tipoArg, tipoRes>>

\* The scheduler starts the next run once this one has returned or died.
NextRun ==
    /\ pc \in {"done", "crashed"}
    /\ pc' = "start"
    /\ aborted' = IF pc = "crashed" /\ new_feats # <<>> /\ saves = 0
                  THEN <<[feats |-> feats, new_feats |-> new_feats]>>
                  ELSE <<>>
    /\ postedBefore' = postedBefore \cup { sentLog[i].object_id : i \in 1..Len(sentLog) }
    /\ fileAtStart' = stateFile
    /\ last_id' = -1
    /\ feats' = <<>>
    /\ fetchFailed' = FALSE
    /\ new_feats' = <<>>
    /\ all_processed' = <<>>
    /\ queue' = <<>>
    /\ sentLog' = <<>>
    /\ saves' = 0
    /\ UNCHANGED <<stateFile, env, other, tipoArg, tipoRes>>

\* A call of classify(a), as format_intervention_with_gemini makes it.
Classify ==
    /\ tipoRes = ""
    /\ tipoRes' = classify(tipoArg)
    /\ UNCHANGED <<stateFile, pc, last_id, feats, fetchFailed, new_feats,
                   all_processed, queue, sentLog, saves, fileAtStart,
                   postedBefore, env, other, aborted, tipoArg>>

Next ==
    \/ LoadState
    \/ FetchOk
    \/ FetchFallback
    \/ FetchError
    \/ Filter
    \/ Render
    \/ Send
    \/ SaveState
    \/ NextRun

Spec == Init /\ [][Next]_vars

\* The same runs without Gemini, over features that may have the id 0.
NextZero ==
    \/ LoadState
    \/ FetchOkZero
    \/ FetchFallbackZero
    \/ FetchError
    \/ Filter
    \/ RenderNoGemini
    \/ Send
    \/ SaveState
    \/ NextRun

SpecZero == Init /\ [][NextZero]_vars

\* The same runs over features whose every attribute varies.
NextAttrs ==
    \/ LoadState
    \/ FetchOkAttrs
    \/ FetchFallbackAttrs
    \/ FetchError
    \/ Filter
    \/ RenderWide
    \/ Send
    \/ SaveState
    \/ NextRun

SpecAttrs == Init /\ [][NextAttrs]_vars

\* The same runs in every environment: test mode or not, each of the two
\* Telegram variables set or not.
InitEnv ==
    /\ stateFile = <<>>
    /\ fileAtStart = <<>>
    /\ env \in [IS_TEST_MODE : BOOLEAN, TELEGRAM_BOT_TOKEN : BOOLEAN,
                 TELEGRAM_CHAT_ID : BOOLEAN]
    /\ InitRun

NextEnv ==
    \/ LoadState
    \/ FetchOkSmall
    \/ FetchFallbackSmall
    \/ FetchError
    \/ Filter
    \/ Render
    \/ Send
    \/ SaveState
    \/ NextRun

SpecEnv == InitEnv /\ [][NextEnv]_vars

\* ---------------------------------------------------- a second invocation
\* The scheduler starts main() a second time, after the first invocation has
\* loaded the watermark: while it is still running (the two overlap) or once
\* it has returned. The second invocation touches the state file when it
\* loads and when it saves; what it does in between is one step here.

\* last_id = load_state()
OtherLoadState ==
    /\ other.pc = "idle"
    /\ pc # "start"
    /\ LET r == load_state(stateFile)
       IN  other' = [other EXCEPT
                        !.pc = IF r.raised THEN "crashed" ELSE "fetch",
                        !.last_id = IF r.raised THEN @ ELSE r.value,
                        !.overlap = pc \in {"fetch", "filter", "render", "send"}]
    /\ UNCHANGED <<stateFile, pc, last_id, feats, fetchFailed, new_feats,
                   all_processed, queue, sentLog, saves, fileAtStart,
                   postedBefore, env, aborted, tipoArg, tipoRes>>

\* From fetch_features() to the end of the send loop, without Gemini.
OtherRun ==
    /\ other.pc = "fetch"
    /\ \E data \in BatchesSameTs :
          LET nf == NewFeats(data, other.last_id)
              q  == MessagesToSend(SortByTimestamp(
                        Processed(nf, [i \in 1..Len(nf) |-> 0])))
          IN  IF ReturnsEarly(data) \/ ReturnsEarly(nf)
              THEN other' = [other EXCEPT !.pc = "done"]
              ELSE other' = [other EXCEPT
                                !.pc = "save",
                                !.max_id_to_save = MaxIdToSave(other.last_id, nf),
                                !.sent = { q[i].object_id : i \in 1..Len(q) }]
    /\ UNCHANGED <<stateFile, pc, last_id, feats, fetchFailed, new_feats,
                   all_processed, queue, sentLog, saves, fileAtStart,
                   postedBefore, env, aborted, tipoArg, tipoRes>>

\* save_state(max_id_to_save)
OtherSaveState ==
    /\ other.pc = "save"
    /\ stateFile' = save_state(other.max_id_to_save)
    /\ other' = [other EXCEPT !.pc = "done"]
    /\ UNCHANGED <<pc, last_id, feats, fetchFailed, new_feats,
                   all_processed, queue, sentLog, saves, fileAtStart,
                   postedBefore, env, aborted, tipoArg, tipoRes>>

\* Two invocations of main() over a state file an earlier run may have written.
InitOverlap ==
    /\ stateFile \in {<<>>} \cup { save_state(n) : n \in 1..MaxOid }
    /\ fileAtStart = stateFile
    /\ env = DefaultEnv
    /\ InitRun

NextOverlap ==
    \/ LoadState
    \/ FetchOkSameTs
    \/ FetchFallbackSameTs
    \/ FetchError
    \/ Filter
    \/ RenderNoGemini
    \/ Send
    \/ SaveState
    \/ OtherLoadState
    \/ OtherRun
    \/ OtherSaveState

SpecOverlap == InitOverlap /\ [][NextOverlap]_vars

\* Runs that start from any content of the state file and whose save may
\* be interrupted.
InitFile ==
    /\ stateFile \in FileContents
    /\ fileAtStart = stateFile
    /\ env = DefaultEnv
    /\ InitRun

NextFile ==
    \/ LoadState
    \/ FetchOkSmall
    \/ FetchFallbackSmall
    \/ FetchError
    \/ Filter
    \/ Render
    \/ Send
    \/ SaveState
    \/ SaveStateInterrupted
    \/ NextRun

SpecFile == InitFile /\ [][NextFile]_vars

\* The same runs over features that may come without a timestamp.
NextRender ==
    \/ LoadState
    \/ FetchOkNull
    \/ FetchFallbackNull
    \/ FetchError
    \/ Filter
    \/ Render
    \/ Send
    \/ SaveState
    \/ NextRun

SpecRender == Init /\ [][NextRender]_vars

\* classify on its own, over every pair of alarm texts.
InitTipo ==
    /\ stateFile = <<>>
    /\ fileAtStart = <<>>
    /\ env = DefaultEnv
    /\ pc = "start"
    /\ last_id = -1
    /\ feats = <<>>
    /\ fetchFailed = FALSE
    /\ new_feats = <<>>
    /\ all_processed = <<>>
    /\ queue = <<>>
    /\ sentLog = <<>>
    /\ saves = 0
    /\ postedBefore = {}
    /\ other = OtherIdle
    /\ aborted = <<>>
    /\ tipoArg \in [TAL_DESC_ALARMA1 : AlarmTexts, TAL_DESC_ALARMA2 : AlarmTexts]
    /\ tipoRes = ""

NextTipo == Classify

SpecTipo == InitTipo /\ [][NextTipo]_vars

TypeOK ==
    /\ pc \in {"start", "fetch", "filter", "render", "send", "done", "crashed"}
    /\ last_id \in -1..MaxOid
    /\ Len(stateFile) <= 1

\* ================================================================= claims
\* What an observer reads in a state file that save_state wrote: its number,
\* and the sentinel if there is no file.
StoredValue(file) ==
    IF file = <<>> THEN -1
    ELSE LET num == SubSeq(file[1], 4, Len(file[1]) - 1)
         IN  IF num[1] = "-" THEN 0 - ValueOf(Tail(num)) ELSE ValueOf(num)

SentIds == { sentLog[i].object_id : i \in 1..Len(sentLog) }

QueuedIds == { queue[i].object_id : i \in 1..Len(queue) }

\* The run has passed the selection.
Selected == pc \in {"send", "done"} /\ new_feats # <<>>

\* C1: no record id is passed to send() in more than one run: what a run
\* sends, and what it takes as new, was not sent by any earlier run.
C1_NoRepostAcrossRuns ==
    /\ SentIds \cap postedBefore = {}
    /\ Oids(new_feats) \cap postedBefore = {}

\* C1 witness: a later run is handed a record an earlier run sent, together
\* with a newer one, and sends only the newer one.
C1_Witness ==
    /\ pc = "done"
    /\ Oids(feats) \cap postedBefore # {}
    /\ SentIds # {}

\* C2: the stored watermark never goes down within a run, whatever the
\* run fetched and however it ended.
C2_WatermarkMonotonic == StoredValue(stateFile) >= StoredValue(fileAtStart)

\* C2 witness: a run that started from a stored watermark, was handed only
\* lower ids besides one new one, and ended with a higher stored watermark.
C2_Witness ==
    /\ pc = "done"
    /\ fileAtStart # <<>>
    /\ \E i \in 1..Len(feats) : feats[i].ESRI_OID < StoredValue(fileAtStart)
    /\ StoredValue(stateFile) > StoredValue(fileAtStart)

\* C3: a run with new records saves the maximum id among all its new
\* records, selected or not, exactly once and only after the send loop.
C3_SavesMaxNewIdOnce ==
    /\ saves <= 1
    /\ pc # "done" => saves = 0 /\ stateFile = fileAtStart
    /\ pc = "done" /\ new_feats # <<>> =>
          /\ saves = 1
          /\ Len(sentLog) = Len(queue)
          /\ StoredValue(stateFile) = SetMax(Oids(new_feats))

\* C3 witness: the run ended and the new record with the highest id was not
\* among the messages sent.
C3_Witness ==
    /\ pc = "done"
    /\ new_feats # <<>>
    /\ SetMax(Oids(new_feats)) \notin SentIds
    /\ StoredValue(stateFile) = SetMax(Oids(new_feats))

\* C4: when fetch_features fails, the run ends with no call of send() and
\* no call of save_state(): the state file is as the run found it.
C4_FailedFetchTouchesNothing ==
    fetchFailed =>
        /\ pc = "done"
        /\ sentLog = <<>>
        /\ saves = 0
        /\ stateFile = fileAtStart

\* C4 witness: a fetch failed in a run that started from a stored watermark.
C4_Witness == fetchFailed /\ pc = "done" /\ stateFile # <<>>

\* C5: a failed delivery does not end the run: the remaining messages are
\* sent and the watermark saved is the one a run without failures saves.
C5_DeliveryErrorNotFatal ==
    (\E i \in 1..Len(sentLog) : sentLog[i].outcome = "error") =>
        /\ pc \in {"send", "done"}
        /\ pc = "done" =>
              /\ Len(sentLog) = Len(queue)
              /\ saves = 1
              /\ StoredValue(stateFile) = SetMax(Oids(new_feats))

\* C5 witness: the first of several messages failed, the others were sent
\* after it and the run saved the watermark.
C5_Witness ==
    /\ pc = "done"
    /\ Len(sentLog) >= 2
    /\ sentLog[1].outcome = "error"
    /\ sentLog[2].outcome = "delivered"
    /\ saves = 1

\* C6, as claimed: a run queues and sends at most two messages.
C6_AtMostTwoMessages == Len(queue) <= 2 /\ Len(sentLog) <= 2

\* C6, amended: a run queues and sends at most MAX_TOTAL_MESSAGES_PER_RUN
\* messages, which is three.
C6_AtMostThreeMessages ==
    /\ Len(queue) <= MAX_TOTAL_MESSAGES_PER_RUN
    /\ Len(sentLog) <= MAX_TOTAL_MESSAGES_PER_RUN

\* C6 witness: four new records, all of them rated important, three sent.
C6_Witness ==
    /\ pc = "done"
    /\ Len(new_feats) = 4
    /\ \A i \in 1..Len(all_processed) :
          all_processed[i].relevance >= MIN_RELEVANCE_FOR_IMPORTANT
    /\ Len(sentLog) = 3

\* The new feature with object id oid.
NewFeatureOf(oid) == CHOOSE f \in SeqRange(new_feats) : f.ESRI_OID = oid

\* The highest timestamp among the new features.
MaxNewTs == SetMax({ new_feats[i].ACT_DAT_ACTUACIO : i \in 1..Len(new_feats) })

\* The first position of new_feats that has the highest timestamp.
FirstMaxTsIdx ==
    CHOOSE i \in 1..Len(new_feats) :
        /\ new_feats[i].ACT_DAT_ACTUACIO = MaxNewTs
        /\ \A j \in 1..(i - 1) : new_feats[j].ACT_DAT_ACTUACIO # MaxNewTs

\* C7, as claimed: with new records, the first message is for the new record
\* with the highest timestamp and, among those that tie on it, the highest id.
C7_FirstIsMaxTimestampMaxId ==
    Selected =>
        /\ queue # <<>>
        /\ NewFeatureOf(queue[1].object_id).ACT_DAT_ACTUACIO = MaxNewTs
        /\ \A i \in 1..Len(new_feats) :
              new_feats[i].ACT_DAT_ACTUACIO = MaxNewTs
                 => new_feats[i].ESRI_OID <= queue[1].object_id
        /\ sentLog # <<>> => sentLog[1].object_id = queue[1].object_id

\* C7, amended: with new records, the first message is for the new record
\* with the highest timestamp and, among those that tie on it, the one that
\* comes first in the fetched batch.
C7_FirstIsMaxTimestampFirstFetched ==
    Selected =>
        /\ queue # <<>>
        /\ queue[1].object_id = new_feats[FirstMaxTsIdx].ESRI_OID
        /\ sentLog # <<>> => sentLog[1].object_id = queue[1].object_id

\* C7 witness: two new records tie on the highest timestamp, the server gave
\* the lower id first, Gemini rated it 0, and it was sent first.
C7_Witness ==
    /\ pc = "done"
    /\ sentLog # <<>>
    /\ \E i \in 1..Len(all_processed) :
          /\ all_processed[i].object_id = sentLog[1].object_id
          /\ all_processed[i].relevance = 0
    /\ \E i \in 1..Len(new_feats) :
          /\ new_feats[i].ACT_DAT_ACTUACIO = MaxNewTs
          /\ new_feats[i].ESRI_OID > sentLog[1].object_id

\* fase is empty or "actiu", whatever the case of its letters.
Active(f) == Lower(f.COM_FASE) \in {EmptyStr, <<"a", "c", "t", "i", "u">>}

\* f ranks at least as high as g: more vehicles, then forestal before
\* agrícola before urbà, then the more recent.
RanksAtLeast(f, g) ==
    \/ f.ACT_NUM_VEH > g.ACT_NUM_VEH
    \/ /\ f.ACT_NUM_VEH = g.ACT_NUM_VEH
       /\ \/ tipo_val(f) < tipo_val(g)
          \/ /\ tipo_val(f) = tipo_val(g)
             /\ f.ACT_DAT_ACTUACIO >= g.ACT_DAT_ACTUACIO

\* C8, as claimed: every message after the first is for an active record with
\* at least MIN_DOTACIONS vehicles, the one that ranks highest among such
\* new records.
C8_AdditionalIsMostRelevantActive ==
    \A i \in 2..Len(sentLog) :
        LET f == NewFeatureOf(sentLog[i].object_id)
        IN  /\ Active(f)
            /\ f.ACT_NUM_VEH >= MIN_DOTACIONS
            /\ \A k \in 1..Len(new_feats) :
                  Active(new_feats[k]) /\ new_feats[k].ACT_NUM_VEH >= MIN_DOTACIONS
                     => RanksAtLeast(f, new_feats[k])

\* The entries rated important, best first, the most recent one included.
Candidates ==
    SortByRelevance(
        SelectSeq(all_processed, LAMBDA inc :
            inc.relevance >= MIN_RELEVANCE_FOR_IMPORTANT))

\* C9, as claimed: the ids queued and sent in a run are pairwise distinct, and
\* only one message is sent when the best candidate is the most recent record.
C9_DistinctAndOneWhenBestIsMostRecent ==
    /\ Cardinality(QueuedIds) = Len(queue)
    /\ Cardinality(SentIds) = Len(sentLog)
    /\ Selected /\ Candidates # <<>>
          /\ Candidates[1].object_id = queue[1].object_id => Len(queue) = 1

\* C9, amended: the ids queued and sent in a run are pairwise distinct, so the
\* most recent record is sent once even when it is rated important.
C9_DistinctIds ==
    /\ \A i, j \in 1..Len(queue) : i # j => queue[i].object_id # queue[j].object_id
    /\ \A i, j \in 1..Len(sentLog) :
          i # j => sentLog[i].object_id # sentLog[j].object_id

\* C9 witness: the most recent record is itself rated important and another
\* record was sent after it.
C9_Witness ==
    /\ pc = "done"
    /\ Len(sentLog) >= 2
    /\ Candidates # <<>>
    /\ Candidates[1].object_id = sentLog[1].object_id

\* The position of feature f in the batch fs (ids are unique in a batch).
PositionIn(fs, f) == CHOOSE j \in 1..Len(fs) : fs[j] = f

\* nf holds the features of fs whose id is not zero and is above lastId,
\* each of them once, in the order they have in fs.
NonZeroAbove(nf, fs, lastId) ==
    /\ \A i \in 1..Len(nf) :
          /\ nf[i].ESRI_OID > lastId
          /\ nf[i].ESRI_OID # 0
          /\ \E j \in 1..Len(fs) : fs[j] = nf[i]
    /\ \A j \in 1..Len(fs) :
          fs[j].ESRI_OID > lastId /\ fs[j].ESRI_OID # 0
             => \E i \in 1..Len(nf) : nf[i] = fs[j]
    /\ \A i, k \in 1..Len(nf) :
          i < k => PositionIn(fs, nf[i]) < PositionIn(fs, nf[k])

\* C10, as claimed: the filter leaves the fetched batch as it is and builds
\* new_feats as the batch restricted to the records whose id is above the
\* watermark, in the order of the batch.
C10_ExactlyAboveWatermark ==
    [][pc = "filter" =>
          /\ feats' = feats
          /\ new_feats' = SelectSeq(feats, LAMBDA f : f.ESRI_OID > last_id)]_vars

\* C10, amended: the filter leaves the fetched batch as it is and builds
\* new_feats as the records of the batch whose id is not zero and is above
\* the watermark, each of them once, in the order of the batch.
C10_NonZeroAboveWatermark ==
    [][pc = "filter" =>
          /\ feats' = feats
          /\ NonZeroAbove(new_feats', feats, last_id)]_vars

\* C10 witness: the batch holds a record with id 0, one at or below the
\* watermark and two above it, and the run has built new_feats.
C10_Witness ==
    /\ pc = "render"
    /\ NonZeroAbove(new_feats, feats, last_id)
    /\ last_id >= 1
    /\ \E i \in 1..Len(feats) : feats[i].ESRI_OID = 0
    /\ \E i \in 1..Len(feats) : feats[i].ESRI_OID # 0 /\ feats[i].ESRI_OID <= last_id
    /\ Len(new_feats) = 2

\* The fetch succeeded and no fetched record has an id above the watermark
\* the run loaded (the batch may be empty).
NothingNew ==
    /\ pc \in {"filter", "render", "send", "done", "crashed"}
    /\ ~fetchFailed
    /\ \A i \in 1..Len(feats) : feats[i].ESRI_OID <= last_id

\* C11: when the fetch succeeds and brings no record above the watermark, the
\* run selects and sends nothing, returns without an error and without a
\* call of save_state(): the state file is as the run found it.
C11_NothingNewNothingDone ==
    NothingNew =>
        /\ pc \in {"filter", "done"}
        /\ new_feats = <<>>
        /\ queue = <<>>
        /\ sentLog = <<>>
        /\ saves = 0
        /\ stateFile = fileAtStart

\* C11 witness: a run that started from a stored watermark was handed a
\* batch of records at or below it, and has returned.
C11_Witness ==
    /\ pc = "done"
    /\ ~fetchFailed
    /\ feats # <<>>
    /\ \A i \in 1..Len(feats) : feats[i].ESRI_OID <= last_id
    /\ stateFile # <<>>
    /\ stateFile = fileAtStart

\* The lower-cased alarm texts of a, joined by a space.
AlarmText(a) == Lower(a.TAL_DESC_ALARMA1 \o <<" ">> \o a.TAL_DESC_ALARMA2)

\* The word w occurs in the text d.
Has(d, w) ==
    \E i \in 1..Len(d) :
        /\ i + Len(w) - 1 <= Len(d)
        /\ \A k \in 1..Len(w) : d[i + k - 1] = w[k]

\* C12, as claimed: the class is urbà if the text has "urbà", "urbana" or
\* "urbano"; else agrícola if it has "agrí", "agrícola" or "agricola"; else
\* forestal, with or without "forestal", "vegetació" or "vegetacion".
C12_DefaultForestal ==
    tipoRes # "" =>
        LET d == AlarmText(tipoArg)
            urban == Has(d, <<"u", "r", "b", "à">>) \/ Has(d, Urbana) \/ Has(d, Urbano)
            agri  == \/ Has(d, <<"a", "g", "r", "í">>)
                     \/ Has(d, Lower(AgricolaAc))
                     \/ Has(d, Agricola)
        IN  /\ tipoRes = "urbà" <=> urban
            /\ tipoRes = "agrícola" <=> ~urban /\ agri
            /\ tipoRes = "forestal" <=> ~urban /\ ~agri

\* C12, amended: the class is urbà if the text has "urbà" or "urbana"; else
\* agrícola if it has "agrí"; else forestal if it has "forestal" or
\* "vegetació"; else urbà. One class for every pair of texts, urbà for the
\* empty pair and for "urbano", "agricola" and "vegetacion" on their own.
C12_DefaultUrba ==
    tipoRes # "" =>
        LET d == AlarmText(tipoArg)
            urban  == Has(d, <<"u", "r", "b", "à">>) \/ Has(d, Urbana)
            agri   == Has(d, <<"a", "g", "r", "í">>)
            forest == Has(d, Forestal) \/ Has(d, VegetacioAc)
        IN  /\ tipoRes \in {"forestal", "agrícola", "urbà"}
            /\ tipoRes = "urbà" <=> urban \/ (~agri /\ ~forest)
            /\ tipoRes = "agrícola" <=> ~urban /\ agri
            /\ tipoRes = "forestal" <=> ~urban /\ ~agri /\ forest

\* C12 witness: classify has answered urbà for two empty alarm texts.
C12_Witness == tipoArg = NoAlarm /\ tipoRes = "urbà"

\* The call of send() recorded in e made a request to the Telegram API.
Posted(e) == e.outcome \in {"delivered", "error"}

\* C13, as claimed: in test mode no call of send() posts to Telegram,
\* whatever the batch and whether or not the Telegram variables are set.
C13_TestModePostsNothing ==
    env.IS_TEST_MODE => \A i \in 1..Len(sentLog) : ~Posted(sentLog[i])

\* C13, amended: in test mode as in live mode, every call of send() posts to
\* Telegram when TELEGRAM_BOT_TOKEN and TELEGRAM_CHAT_ID are both set, and
\* none does when one of them is missing.
C13_PostsIffTelegramConfigured ==
    \A i \in 1..Len(sentLog) :
        Posted(sentLog[i]) <=> env.TELEGRAM_BOT_TOKEN /\ env.TELEGRAM_CHAT_ID

\* C13 witness: a run in test mode, with both Telegram variables set, has
\* delivered a message and returned.
C13_Witness ==
    /\ env.IS_TEST_MODE
    /\ env.TELEGRAM_BOT_TOKEN /\ env.TELEGRAM_CHAT_ID
    /\ pc = "done"
    /\ \E i \in 1..Len(sentLog) : sentLog[i].outcome = "delivered"

\* The file holds {"last_id": n} for an integer n.
HoldsWatermark(file) ==
    \E n \in (0 - 1)..MaxOid : file = <<json_dumps(n)>>

\* C14, as claimed: a run that finds a state file without a valid watermark
\* ends in load_state, before it fetches or sends anything, and only a run that
\* finds no state file goes on from the sentinel -1.
C14_InvalidStateAborts ==
    fileAtStart # <<>> /\ ~HoldsWatermark(fileAtStart) =>
        /\ pc \in {"start", "crashed"}
        /\ feats = <<>>
        /\ sentLog = <<>>

\* C15, as claimed: after a save_state(n) that was interrupted, load_state
\* returns the watermark the run had loaded or n.
C15_SaveIsAtomic ==
    pc = "crashed" /\ saves = 1 =>
        LET r == load_state(stateFile)
        IN  /\ ~r.raised
            /\ r.value \in {last_id, MaxIdToSave(last_id, new_feats)}

\* C16: two invocations of main() that do not overlap (the second loads the
\* watermark once the first has returned) send no record twice and never
\* lower the stored watermark; two that overlap can do both (the witness).
C16_SafeUnlessOverlap ==
    [][~other.overlap' =>
          /\ SentIds' \cap other.sent' = {}
          /\ StoredValue(stateFile') >= StoredValue(stateFile)]_vars

\* C16 witness: the second invocation loaded the watermark while the first
\* was running; both have returned, both sent the same record, and the
\* state file holds less than the first invocation saved.
C16_Witness ==
    /\ other.overlap
    /\ pc = "done" /\ saves = 1
    /\ other.pc = "done"
    /\ SentIds \cap other.sent # {}
    /\ StoredValue(stateFile) < SetMax(Oids(new_feats))

\* The run is past the rendering loop and one of its new records could not
\* be rendered.
RenderFailed ==
    /\ pc \in {"send", "done", "crashed"}
    /\ \E i \in 1..Len(new_feats) : RenderRaises(new_feats[i])

\* C17: a run in which the rendering of a new record raises ends there, with
\* no message queued or sent and no call of save_state(); and the run after
\* it, handed the same batch, takes the same records as new and ends the
\* same way.
C17_RenderErrorSendsNothing ==
    /\ RenderFailed =>
          /\ pc = "crashed"
          /\ queue = <<>>
          /\ sentLog = <<>>
          /\ saves = 0
          /\ stateFile = fileAtStart
    /\ aborted # <<>> /\ pc \in {"render", "send", "done", "crashed"} =>
          /\ feats = aborted[1].feats
          /\ new_feats = aborted[1].new_feats
          /\ pc \in {"render", "crashed"}
          /\ sentLog = <<>>
          /\ saves = 0

\* C17 witness: a run that started from a stored watermark was handed the
\* batch that ended the run before it, a record without timestamp next to
\* one with, and ended in the rendering loop too.
C17_Witness ==
    /\ aborted # <<>>
    /\ pc = "crashed"
    /\ stateFile # <<>>
    /\ Len(new_feats) = 2
    /\ new_feats = aborted[1].new_feats
    /\ \E i \in 1..Len(new_feats) : ~RenderRaises(new_feats[i])

====
